---- MODULE Spec2Model ----
(***************************************************************************)
(* Model of the three CSV cleaning pipelines of src/main.rs:               *)
(*   clean_dashboard_csv   (strict rows, IQR outlier filter),              *)
(*   clean_timeseries_csv  (lenient rows, streamed to the writer),         *)
(*   clean_forcasting_csv  (lenient rows, date sort, 3-row moving average).*)
(*                                                                         *)
(* Text is a sequence of one-character strings, so that parsing and        *)
(* formatting are computed character by character as the code does.        *)
(* An f64 is a record [nan, t]: NaN, or the finite value t / Unit.  Cells  *)
(* carry at most FracDigits fractional digits; exponent and infinity       *)
(* literals and magnitudes near the i64 / f64 limits lie outside the cell  *)
(* alphabet.                                                               *)
(***************************************************************************)
EXTENDS Integers, Sequences, FiniteSets, TLC

VARIABLES
    pipeline,   \* which of the three functions runs
    hdr,        \* number of fields of the header row of the source table
    input,      \* the data rows of the source table, as raw field texts
    idx,        \* number of data rows the reader has yielded so far
    records,    \* clean_dashboard_csv: Vec<DashboardRow>
    filtered,   \* clean_dashboard_csv: the rows kept by the outlier filter
    rows,       \* clean_forcasting_csv: Vec<Row>
    sales_ma,   \* clean_forcasting_csv: Vec<Option<f64>>
    created,    \* the destination table exists (WriterBuilder::from_path ran)
    header,     \* the header record has been written to the destination
    out,        \* data records written to the destination, as field texts
    pc          \* position of the running function

vars == <<pipeline, hdr, input, idx, records, filtered, rows, sales_ma,
          created, header, out, pc>>

-----------------------------------------------------------------------------
(* Bounds of the model *)

\* fractional decimal digits a cell may carry
FracDigits == 1
\* data rows of a table of the three-pipeline specification
MaxRows == 2
\* data rows of a table of the Dashboard specification
MaxDashRows == 3
\* data rows of a table of the Forecast specification
MaxFcRows == 4

-----------------------------------------------------------------------------
(* Option<T> / Result<T, E>: the empty tuple is None / Err, <<v>> is Some(v) / Ok(v) *)

None == <<>>

Some(v) == <<v>>

IsSome(o) == Len(o) = 1

Unwrap(o) == o[1]

-----------------------------------------------------------------------------
(* f64 values *)

\* one unit of the fixed-point scale: half of the last decimal digit, so
\* that 1.5 * x is exact for every parsed x
Unit == 2 * (10 ^ FracDigits)

Fin(t) == [nan |-> FALSE, t |-> t]

NaN == [nan |-> TRUE, t |-> 0]

\* f64 subtraction
FSub(a, b) == IF a.nan \/ b.nan THEN NaN ELSE Fin(a.t - b.t)

\* f64 addition
FAdd(a, b) == IF a.nan \/ b.nan THEN NaN ELSE Fin(a.t + b.t)

\* 1.5 * x
FMul15(a) == IF a.nan THEN NaN ELSE Fin((3 * a.t) \div 2)

\* a >= b and a <= b on f64: false as soon as one side is NaN
FGe(a, b) == ~a.nan /\ ~b.nan /\ a.t >= b.t

FLe(a, b) == ~a.nan /\ ~b.nan /\ a.t <= b.t

\* a.partial_cmp(b): None when one side is NaN
partial_cmp(a, b) ==
    IF a.nan \/ b.nan THEN None
    ELSE Some(IF a.t < b.t THEN "Less" ELSE IF a.t = b.t THEN "Equal" ELSE "Greater")

\* rounding toward zero, as "val as i64" without floor() would
FloorAsI64Trunc(v) == IF v.nan THEN 0 ELSE IF v.t >= 0 THEN v.t \div Unit ELSE -((-v.t) \div Unit)

\* val.floor() as i64 (the cast sends NaN to 0)
FloorAsI64(v) == IF v.nan THEN 0 ELSE v.t \div Unit

-----------------------------------------------------------------------------
(* Text *)

Digits == <<"0", "1", "2", "3", "4", "5", "6", "7", "8", "9">>

DigitSet == {Digits[i] : i \in 1..10}

DigitVal(c) == (CHOOSE i \in 1..10 : Digits[i] = c) - 1

Whitespace == {" ", "\t"}

RECURSIVE TrimStart(_)
TrimStart(s) ==
    IF s # <<>> /\ Head(s) \in Whitespace THEN TrimStart(Tail(s)) ELSE s

RECURSIVE TrimEnd(_)
TrimEnd(s) ==
    IF s # <<>> /\ s[Len(s)] \in Whitespace THEN TrimEnd(SubSeq(s, 1, Len(s) - 1)) ELSE s

\* str::trim
Trim(s) == TrimEnd(TrimStart(s))

\* value of a run of decimal digits
RECURSIVE DigitsVal(_)
DigitsVal(ds) ==
    IF ds = <<>> THEN 0
    ELSE DigitsVal(SubSeq(ds, 1, Len(ds) - 1)) * 10 + DigitVal(ds[Len(ds)])

\* number of leading decimal digits of s, at most max
RECURSIVE LeadDigits(_, _)
LeadDigits(s, max) ==
    IF s = <<>> \/ max = 0 \/ Head(s) \notin DigitSet THEN 0
    ELSE 1 + LeadDigits(Tail(s), max - 1)

\* decimal digits of n >= 0, without padding
RECURSIVE NatToStr(_)
NatToStr(n) ==
    IF n < 10 THEN <<Digits[n + 1]>>
    ELSE NatToStr(n \div 10) \o <<Digits[(n % 10) + 1]>>

\* i64::to_string
IntToStr(n) == IF n < 0 THEN <<"-">> \o NatToStr(-n) ELSE NatToStr(n)

\* n >= 0 in at least w digits, zero padded
RECURSIVE Pad(_, _)
Pad(n, w) ==
    LET s == NatToStr(n)
    IN  IF Len(s) >= w THEN s ELSE <<"0">> \o Pad(n, w - 1)

RECURSIVE StripZeros(_)
StripZeros(s) ==
    IF s # <<>> /\ s[Len(s)] = "0" THEN StripZeros(SubSeq(s, 1, Len(s) - 1)) ELSE s

\* the integer part only, as "{:.0}" would print
F64ToStringInt(v) ==
    IF v.nan THEN <<"N", "a", "N">>
    ELSE LET a == IF v.t < 0 THEN -v.t ELSE v.t
         IN  (IF v.t < 0 THEN <<"-">> ELSE <<>>) \o NatToStr(a \div Unit)

\* f64::to_string: the shortest decimal text that parses back to the value
F64ToString(v) ==
    IF v.nan THEN <<"N", "a", "N">>
    ELSE LET a    == IF v.t < 0 THEN -v.t ELSE v.t
             frac == StripZeros(Pad((a % Unit) \div 2, FracDigits))
         IN  (IF v.t < 0 THEN <<"-">> ELSE <<>>)
             \o NatToStr(a \div Unit)
             \o (IF frac = <<>> THEN <<>> ELSE <<".">> \o frac)

\* str::parse::<f64> on the decimal and NaN forms
NaNTexts == {<<"N", "a", "N">>, <<"n", "a", "n">>, <<"N", "A", "N">>}

ParseF64(clean) ==
    LET signed == clean # <<>> /\ Head(clean) \in {"+", "-"}
        body   == IF signed THEN Tail(clean) ELSE clean
        neg    == signed /\ Head(clean) = "-"
        ni     == LeadDigits(body, Len(body))
        rest   == SubSeq(body, ni + 1, Len(body))
        dot    == rest # <<>> /\ Head(rest) = "."
        fr     == IF dot THEN Tail(rest) ELSE <<>>
        nf     == LeadDigits(fr, Len(fr))
        kept   == SubSeq(fr, 1, IF nf < FracDigits THEN nf ELSE FracDigits)
        fracv  == DigitsVal(kept) * (10 ^ (FracDigits - Len(kept)))
        mag    == DigitsVal(SubSeq(body, 1, ni)) * Unit + 2 * fracv
    IN  IF body \in NaNTexts THEN Some(NaN)
        ELSE IF ni + nf = 0 THEN None
        ELSE IF ~dot /\ rest # <<>> THEN None
        ELSE IF dot /\ nf # Len(fr) THEN None
        ELSE Some(Fin(IF neg THEN -mag ELSE mag))

null == <<"n", "u", "l", "l">>

\* fn parse_money(s: &str) -> Option<f64>
parse_money(s) ==
    LET cleaned_string == SelectSeq(s, LAMBDA c : c \notin {"$", "£", ","})
        clean          == Trim(cleaned_string)
    IN  IF clean = <<>> \/ clean = null THEN None ELSE ParseF64(clean)

-----------------------------------------------------------------------------
(* Calendar dates (chrono::NaiveDate) *)

IsLeap(y) == (y % 4 = 0 /\ y % 100 # 0) \/ y % 400 = 0

DaysInMonth(y, m) ==
    IF m = 2 THEN (IF IsLeap(y) THEN 29 ELSE 28)
    ELSE IF m \in {4, 6, 9, 11} THEN 30 ELSE 31

\* NaiveDate::parse_from_str(s, "%d/%m/%Y"): one or two digits, "/", one or
\* two digits, "/", one to four digits, end of text; then a calendar check
ParseDate(s) ==
    LET nd == LeadDigits(s, 2)
        r1 == SubSeq(s, nd + 1, Len(s))
    IN  IF nd = 0 \/ r1 = <<>> \/ Head(r1) # "/" THEN None
        ELSE
        LET s2 == Tail(r1)
            nm == LeadDigits(s2, 2)
            r2 == SubSeq(s2, nm + 1, Len(s2))
        IN  IF nm = 0 \/ r2 = <<>> \/ Head(r2) # "/" THEN None
            ELSE
            LET s3 == Tail(r2)
                ny == LeadDigits(s3, 4)
                d  == DigitsVal(SubSeq(s, 1, nd))
                m  == DigitsVal(SubSeq(s2, 1, nm))
                y  == DigitsVal(SubSeq(s3, 1, ny))
            IN  IF ny = 0 \/ ny # Len(s3) THEN None
                ELSE IF m \notin 1..12 THEN None
                ELSE IF d < 1 \/ d > DaysInMonth(y, m) THEN None
                ELSE Some([y |-> y, m |-> m, d |-> d])

\* date.format("%Y-%m-%d").to_string()
FormatISO(date) ==
    Pad(date.y, 4) \o <<"-">> \o Pad(date.m, 2) \o <<"-">> \o Pad(date.d, 2)

\* the chronological order of NaiveDate, as an integer key
DateKey(date) == (date.y * 12 + (date.m - 1)) * 31 + (date.d - 1)

-----------------------------------------------------------------------------
(* Stable sorting (slice::sort_by, slice::sort_by_key) of [k, v] pairs by k *)

\* an insertion that puts a record before the records of equal key
RECURSIVE InsertUnstable(_, _)
InsertUnstable(sorted, x) ==
    IF sorted = <<>> THEN <<x>>
    ELSE IF sorted[Len(sorted)].k < x.k THEN Append(sorted, x)
    ELSE Append(InsertUnstable(SubSeq(sorted, 1, Len(sorted) - 1), x), sorted[Len(sorted)])

\* one insertion of a stable sort: after the records of equal key
RECURSIVE InsertStable(_, _)
InsertStable(sorted, x) ==
    IF sorted = <<>> THEN <<x>>
    ELSE IF sorted[Len(sorted)].k <= x.k THEN Append(sorted, x)
    ELSE Append(InsertStable(SubSeq(sorted, 1, Len(sorted) - 1), x), sorted[Len(sorted)])

RECURSIVE StableSort(_)
StableSort(s) ==
    IF s = <<>> THEN <<>>
    ELSE InsertStable(StableSort(SubSeq(s, 1, Len(s) - 1)), s[Len(s)])

-----------------------------------------------------------------------------
(* The csv reader: has_headers(true), trim(csv::Trim::All), not flexible *)

\* number of columns of the documented table layout (last index 12)
NumCols == 13

\* rdr.records(): Err for a row whose field count differs from the header's,
\* otherwise the record of trimmed fields
ReadRecord(row) ==
    IF Len(row) # hdr THEN None
    ELSE Some([i \in 1..Len(row) |-> Trim(row[i])])

\* record.get(i).unwrap_or("")
Get(record, i) == IF i < Len(record) THEN record[i + 1] ELSE <<>>

\* record.iter().all(|s| s.trim().is_empty() || s.trim() == "null")
AllBlank(record) ==
    \A i \in 1..Len(record) : Trim(record[i]) = <<>> \/ Trim(record[i]) = null

\* outcome of one loop iteration over a record
Skip == [kind |-> "skip", row |-> <<>>]

\* a date error handled with continue instead of ?
AbortAsSkip == [kind |-> "skip", row |-> <<>>]

\* the ? operator on a date that fails to parse: the function returns the error
Abort == [kind |-> "abort", row |-> <<>>]

Push(r) == [kind |-> "push", row |-> <<r>>]

-----------------------------------------------------------------------------
(* clean_dashboard_csv *)

\* the body of the row loop, lines 38-82
DashboardRowOf(record) ==
    IF AllBlank(record) THEN Skip
    ELSE
    LET country        == Trim(Get(record, 1))
        product        == Trim(Get(record, 2))
        units_sold_str == Trim(Get(record, 4))
        units_sold     == parse_money(units_sold_str)
        manufacturing_price_raw == Trim(Get(record, 5))
        manufacturing_price     == parse_money(manufacturing_price_raw)
        sale_price_str == Trim(Get(record, 6))
        sale_price     == parse_money(sale_price_str)
        date_str       == Trim(Get(record, 12))
        date           == ParseDate(date_str)
    IN  IF ~IsSome(units_sold) THEN Skip
        ELSE IF manufacturing_price_raw = <<>> \/ manufacturing_price_raw = null THEN Skip
        ELSE IF ~IsSome(manufacturing_price) THEN Skip
        ELSE IF ~IsSome(sale_price) THEN Skip
        ELSE IF date_str = <<>> \/ date_str = null THEN Skip
        ELSE IF ~IsSome(date) THEN Abort
        ELSE Push([country |-> country,
                   product |-> product,
                   units_sold |-> FloorAsI64(Unwrap(units_sold)),
                   manufacturing_price |-> Unwrap(manufacturing_price),
                   sale_price |-> Unwrap(sale_price),
                   date |-> Unwrap(date)])

\* sorted_prices.sort_by(|a, b| a.partial_cmp(b).unwrap()): the comparator
\* panics on the first comparison that involves a NaN, and every element of
\* a slice of two or more is compared at least once
SortPanics(sale_prices) ==
    /\ Len(sale_prices) >= 2
    /\ \E i \in 1..Len(sale_prices), j \in 1..Len(sale_prices) :
          i # j /\ ~IsSome(partial_cmp(sale_prices[i], sale_prices[j]))

SortedPrices(sale_prices) ==
    LET kv == [i \in 1..Len(sale_prices) |-> [k |-> sale_prices[i].t, v |-> sale_prices[i]]]
        s  == StableSort(kv)
    IN  [i \in 1..Len(s) |-> s[i].v]

\* (len as f64 * 0.25).floor() as usize and (len as f64 * 0.75).floor() as usize
Q1Index(len) == len \div 4

Q3Index(len) == (3 * len) \div 4

\* lines 91-95: the outlier bounds of a non-empty sorted price vector
Bounds(sorted_prices) ==
    LET q1  == sorted_prices[Q1Index(Len(sorted_prices)) + 1]
        q3  == sorted_prices[Q3Index(Len(sorted_prices)) + 1]
        iqr == FSub(q3, q1)
    IN  [lower |-> FSub(q1, FMul15(iqr)), upper |-> FAdd(q3, FMul15(iqr))]

\* lines 99-102
KeepRow(r, b) == FGe(r.sale_price, b.lower) /\ FLe(r.sale_price, b.upper)

\* lines 121-128: the fields of one written record
DashboardText(r) ==
    <<r.country, r.product, IntToStr(r.units_sold),
      F64ToString(r.manufacturing_price), F64ToString(r.sale_price),
      FormatISO(r.date)>>

\* lines 28-33: the reader is opened; the destination is not touched yet
DashOpen ==
    /\ pipeline = "Dashboard" /\ pc = "start"
    /\ pc' = "read"
    /\ UNCHANGED <<pipeline, hdr, input, idx, records, filtered, rows, sales_ma,
                   created, header, out>>

\* lines 35-83: one iteration of the row loop
DashReadRow ==
    /\ pipeline = "Dashboard" /\ pc = "read" /\ idx < Len(input)
    /\ LET result == ReadRecord(input[idx + 1])
           o      == DashboardRowOf(Unwrap(result))
       IN  IF ~IsSome(result) \/ o.kind = "abort"
           THEN /\ pc' = "aborted"
                /\ UNCHANGED <<idx, records>>
           ELSE /\ idx' = idx + 1
                /\ records' = records \o o.row
                /\ pc' = pc
    /\ UNCHANGED <<pipeline, hdr, input, filtered, rows, sales_ma, created, header, out>>

\* lines 85-102: outlier bounds and filter, after the last row
DashOutlier ==
    /\ pipeline = "Dashboard" /\ pc = "read" /\ idx = Len(input)
    /\ LET sale_prices == [i \in 1..Len(records) |-> records[i].sale_price]
       IN  IF SortPanics(sale_prices) \/ Q1Index(Len(sale_prices)) >= Len(sale_prices)
           THEN /\ pc' = "panicked"
                /\ UNCHANGED filtered
           ELSE /\ filtered' = SelectSeq(records,
                                   LAMBDA r : KeepRow(r, Bounds(SortedPrices(sale_prices))))
                /\ pc' = "write"
    /\ UNCHANGED <<pipeline, hdr, input, idx, records, rows, sales_ma, created, header, out>>

\* lines 104-134: the destination is created, header and rows written, flushed
DashWrite ==
    /\ pipeline = "Dashboard" /\ pc = "write"
    /\ created' = TRUE
    /\ header' = TRUE
    /\ out' = [i \in 1..Len(filtered) |-> DashboardText(filtered[i])]
    /\ pc' = "done"
    /\ UNCHANGED <<pipeline, hdr, input, idx, records, filtered, rows, sales_ma>>

NextDash == DashOpen \/ DashReadRow \/ DashOutlier \/ DashWrite

-----------------------------------------------------------------------------
(* clean_timeseries_csv *)

\* parse_money(record.get(i).unwrap_or("").trim()).unwrap_or(0.0)
MoneyOrZero(record, i) ==
    LET p == parse_money(Trim(Get(record, i)))
    IN  IF IsSome(p) THEN Unwrap(p) ELSE Fin(0)

\* parse_money(record.get(i).unwrap_or("")).map(|v| v.floor() as i64).unwrap_or(0)
IntOrZero(record, i) ==
    LET p == parse_money(Get(record, i))
    IN  IF IsSome(p) THEN FloorAsI64(Unwrap(p)) ELSE 0

\* the row loop with the Dashboard's strictness: a row whose units cell does
\* not parse is skipped
TimeseriesRowOfStrict(record) ==
    IF AllBlank(record) THEN Skip
    ELSE
    LET date_str == Trim(Get(record, 12))
        date     == ParseDate(date_str)
    IN  IF ~IsSome(parse_money(Trim(Get(record, 4)))) THEN Skip
        ELSE IF date_str = <<>> \/ date_str = null THEN Skip
        ELSE IF ~IsSome(date) THEN Abort
        ELSE Push(<<Trim(Get(record, 0)), Trim(Get(record, 1)), Trim(Get(record, 2)),
                    Trim(Get(record, 3)), IntToStr(IntOrZero(record, 4))>>
                  \o [i \in 1..7 |-> F64ToString(MoneyOrZero(record, i + 4))]
                  \o <<FormatISO(Unwrap(date))>>)

\* the body of the row loop, lines 167-211: the 13 fields of the written record
TimeseriesRowOf(record) ==
    IF AllBlank(record) THEN Skip
    ELSE
    LET segment       == Trim(Get(record, 0))
        country       == Trim(Get(record, 1))
        product       == Trim(Get(record, 2))
        discount_band == Trim(Get(record, 3))
        units_sold    == IntOrZero(record, 4)
        date_str      == Trim(Get(record, 12))
        date          == ParseDate(date_str)
    IN  IF date_str = <<>> \/ date_str = null THEN Skip
        ELSE IF ~IsSome(date) THEN Abort
        ELSE Push(<<segment, country, product, discount_band, IntToStr(units_sold)>>
                  \o [i \in 1..7 |-> F64ToString(MoneyOrZero(record, i + 4))]
                  \o <<FormatISO(Unwrap(date))>>)

\* lines 140-163: reader opened, destination created, header written
TsOpen ==
    /\ pipeline = "Timeseries" /\ pc = "start"
    /\ created' = TRUE
    /\ header' = TRUE
    /\ pc' = "read"
    /\ UNCHANGED <<pipeline, hdr, input, idx, records, filtered, rows, sales_ma, out>>

\* lines 164-212: one iteration of the row loop; the record is written at
\* once, and the writer flushes what it holds when it is dropped on an error
TsReadRow ==
    /\ pipeline = "Timeseries" /\ pc = "read" /\ idx < Len(input)
    /\ LET result == ReadRecord(input[idx + 1])
           o      == TimeseriesRowOf(Unwrap(result))
       IN  IF ~IsSome(result) \/ o.kind = "abort"
           THEN /\ pc' = "aborted"
                /\ UNCHANGED <<idx, out>>
           ELSE /\ idx' = idx + 1
                /\ out' = out \o o.row
                /\ pc' = pc
    /\ UNCHANGED <<pipeline, hdr, input, records, filtered, rows, sales_ma, created, header>>

\* lines 214-217: flush after the last row
TsFinish ==
    /\ pipeline = "Timeseries" /\ pc = "read" /\ idx = Len(input)
    /\ pc' = "done"
    /\ UNCHANGED <<pipeline, hdr, input, idx, records, filtered, rows, sales_ma,
                   created, header, out>>

NextTs == TsOpen \/ TsReadRow \/ TsFinish

-----------------------------------------------------------------------------
(* clean_forcasting_csv *)

\* let window = 3
window == 3

\* the body of the row loop, lines 257-310
ForecastRowOf(record) ==
    IF AllBlank(record) THEN Skip
    ELSE
    LET date_str == Trim(Get(record, 12))
        date     == ParseDate(date_str)
    IN  IF date_str = <<>> \/ date_str = null THEN Skip
        ELSE IF ~IsSome(date) THEN Abort
        ELSE Push([segment |-> Trim(Get(record, 0)),
                   country |-> Trim(Get(record, 1)),
                   product |-> Trim(Get(record, 2)),
                   discount_band |-> Trim(Get(record, 3)),
                   units_sold |-> IntOrZero(record, 4),
                   procurement |-> IntOrZero(record, 5),
                   manufactured_price |-> IntOrZero(record, 6),
                   sale_price |-> IntOrZero(record, 7),
                   budget |-> IntOrZero(record, 8),
                   discounts |-> IntOrZero(record, 9),
                   sales |-> IntOrZero(record, 10),
                   cogs |-> IntOrZero(record, 11),
                   date |-> Unwrap(date)])

\* rows.sort_by_key(|r| r.date)
SortByDate(rs) ==
    LET kv == [i \in 1..Len(rs) |-> [k |-> DateKey(rs[i].date), v |-> rs[i]]]
        s  == StableSort(kv)
    IN  [i \in 1..Len(s) |-> s[i].v]

\* rows[lo..=hi].iter().map(|r| r.sales).sum(), positions counted from 1
RECURSIVE SumSales(_, _, _)
SumSales(rs, lo, hi) ==
    IF lo > hi THEN 0 ELSE rs[lo].sales + SumSales(rs, lo + 1, hi)

\* the window guard off by one: the first average one row late
MovingAverageLate(rs, i) ==
    IF i < window THEN None
    ELSE Some([num |-> SumSales(rs, i + 1 - window + 1, i + 1), den |-> window])

\* lines 318-326: the entry of sales_ma for the row at 0-based position i;
\* the f64 quotient sum / window is kept as the fraction num / den
MovingAverage(rs, i) ==
    IF i + 1 < window THEN None
    ELSE Some([num |-> SumSales(rs, i + 1 - window + 1, i + 1), den |-> window])

\* v.round().to_string(): half away from zero; a negative value that
\* rounds to zero prints as "-0"
RoundToString(v) ==
    LET a == IF v.num < 0 THEN -v.num ELSE v.num
        r == (2 * a + v.den) \div (2 * v.den)
    IN  (IF v.num < 0 THEN <<"-">> ELSE <<>>) \o NatToStr(r)

\* lines 346-361: the 14 fields of one written record
ForecastText(row, ma) ==
    <<row.segment, row.country, row.product, row.discount_band,
      IntToStr(row.units_sold), IntToStr(row.procurement),
      IntToStr(row.manufactured_price), IntToStr(row.sale_price),
      IntToStr(row.budget), IntToStr(row.discounts),
      IntToStr(row.sales), IntToStr(row.cogs),
      IF IsSome(ma) THEN RoundToString(Unwrap(ma)) ELSE <<>>,
      FormatISO(row.date)>>

\* lines 226-252: reader opened, destination created (no header yet)
FcOpen ==
    /\ pipeline = "Forecast" /\ pc = "start"
    /\ created' = TRUE
    /\ pc' = "read"
    /\ UNCHANGED <<pipeline, hdr, input, idx, records, filtered, rows, sales_ma,
                   header, out>>

\* lines 254-311: one iteration of the row loop
FcReadRow ==
    /\ pipeline = "Forecast" /\ pc = "read" /\ idx < Len(input)
    /\ LET result == ReadRecord(input[idx + 1])
           o      == ForecastRowOf(Unwrap(result))
       IN  IF ~IsSome(result) \/ o.kind = "abort"
           THEN /\ pc' = "aborted"
                /\ UNCHANGED <<idx, rows>>
           ELSE /\ idx' = idx + 1
                /\ rows' = rows \o o.row
                /\ pc' = pc
    /\ UNCHANGED <<pipeline, hdr, input, records, filtered, sales_ma, created, header, out>>

\* lines 313-326: the date sort and the moving average, after the last row
FcSmooth ==
    /\ pipeline = "Forecast" /\ pc = "read" /\ idx = Len(input)
    /\ rows' = SortByDate(rows)
    /\ sales_ma' = [j \in 1..Len(rows) |-> MovingAverage(SortByDate(rows), j - 1)]
    /\ pc' = "write"
    /\ UNCHANGED <<pipeline, hdr, input, idx, records, filtered, created, header, out>>

\* lines 328-365: header and one record per row; the writer flushes on drop
FcWrite ==
    /\ pipeline = "Forecast" /\ pc = "write"
    /\ header' = TRUE
    /\ out' = [j \in 1..Len(rows) |-> ForecastText(rows[j], sales_ma[j])]
    /\ pc' = "done"
    /\ UNCHANGED <<pipeline, hdr, input, idx, records, filtered, rows, sales_ma, created>>

NextFc == FcOpen \/ FcReadRow \/ FcSmooth \/ FcWrite

-----------------------------------------------------------------------------
(* Source tables *)

Pipelines == {"Dashboard", "Timeseries", "Forecast"}

\* all sequences over R of length at most n
Tables(R, n) == UNION {[1..k -> R] : k \in 0..n}

\* a source table whose header has h fields: the rows cut to h fields
Cut(table, h) ==
    [i \in 1..Len(table) |-> SubSeq(table[i], 1, IF Len(table[i]) < h THEN Len(table[i]) ELSE h)]

\* a header narrower than the date column
ShortCols == 5

\* a row of NumCols fields; columns 0, 3, 7, 8, 9 and 11 carry fixed text
MkRow(country, product, units, c5, c6, c10, date) ==
    <<<<"G">>, country, product, <<"L">>, units, c5, c6,
      <<"7">>, <<"8">>, <<"$", "9">>, c10, <<"1", ".", "5">>, date>>

BlankRow == [i \in 1..NumCols |-> IF i % 2 = 0 THEN <<>> ELSE <<" ", "n", "u", "l", "l">>]

\* a row the reader rejects: its field count differs from the header's
RaggedRow == <<<<"x">>>>

UK == <<"U", "K">>

Pen == <<"P", "e", "n">>

D1 == <<"0", "5", "/", "0", "1", "/", "2", "0", "2", "4">>

D2 == <<"3", "/", "1", "/", "2", "0", "2", "4">>

BadDate == <<"2", "0", "2", "4", "-", "0", "1", "-", "0", "5">>

StartState(p, h, table) ==
    /\ pipeline = p
    /\ hdr = h
    /\ input = table
    /\ idx = 0
    /\ records = <<>>
    /\ filtered = <<>>
    /\ rows = <<>>
    /\ sales_ma = <<>>
    /\ created = FALSE
    /\ header = FALSE
    /\ out = <<>>
    /\ pc = "start"

(* The three pipelines over tables that vary the units cell and the date cell *)

GenUnits ==
    {<<"4", ".", "9">>, <<"5", ".", "0">>, <<"4", ".", "5">>, <<"-", "0", ".", "1">>,
     <<"$", "1", ",", "2", "3", "4", ".", "5">>, null, <<"a", "b", "c">>}

GenDates == {D1, <<>>, BadDate}

GenRows ==
    {MkRow(UK, Pen, u, <<"$", "2", ".", "5">>, <<"3">>, <<"4", "0">>, d) :
        u \in GenUnits, d \in GenDates}
    \cup {MkRow(UK, Pen, <<>>, <<>>, null, <<"x">>, D2), BlankRow, RaggedRow}

Init ==
    \E p \in Pipelines, h \in {NumCols, ShortCols}, t \in Tables(GenRows, MaxRows) :
        StartState(p, h, Cut(t, h))

Next == NextDash \/ NextTs \/ NextFc

Spec == Init /\ [][Next]_vars

-----------------------------------------------------------------------------
(* clean_dashboard_csv alone, over tables that vary every required field *)

Price(p) == MkRow(UK, Pen, <<"4", ".", "9">>, <<"$", "2", ".", "5">>, p, <<"4", "0">>, D1)

DashPrices == {<<"1", "0">>, <<"1", "2">>, <<"1", "0", "0">>, <<"N", "a", "N">>}

DashRows ==
    {Price(p) : p \in DashPrices}
    \cup {MkRow(<<>>, Pen, <<"7">>, <<"2">>, <<"1", "2">>, <<>>, D1),
          MkRow(UK, null, <<"7">>, <<"2">>, <<"1", "2">>, <<>>, D1),
          MkRow(UK, Pen, null, <<"2">>, <<"1", "2">>, <<>>, D1),
          MkRow(UK, Pen, <<"a", "b", "c">>, <<"2">>, <<"1", "2">>, <<>>, BadDate),
          MkRow(UK, Pen, <<"7">>, <<>>, <<"1", "2">>, <<>>, D1),
          MkRow(UK, Pen, <<"7">>, <<"$">>, <<"1", "2">>, <<>>, D1),
          MkRow(UK, Pen, <<"7">>, <<"2">>, <<"1", " ", "2">>, <<>>, D1),
          MkRow(UK, Pen, <<"7">>, <<"2">>, <<"1", "2">>, <<>>, null),
          BlankRow}

\* the sale prices 10, 12, 14, 15, 18, 100
ExampleDashTable ==
    <<Price(<<"1", "0">>), Price(<<"1", "2">>), Price(<<"1", "4">>),
      Price(<<"1", "5">>), Price(<<"1", "8">>), Price(<<"1", "0", "0">>)>>

InitDash ==
    \E t \in Tables(DashRows, MaxDashRows) \cup {ExampleDashTable} :
        StartState("Dashboard", NumCols, t)

SpecDash == InitDash /\ [][NextDash]_vars

-----------------------------------------------------------------------------
(* clean_forcasting_csv alone, over tables that vary country, sales and date *)

FR == <<"F", "R">>

Sale(c, s, d) == MkRow(c, Pen, <<"4", ".", "9">>, <<"2">>, <<"3">>, s, d)

Day(n) == <<"0", Digits[n + 1], "/", "0", "1", "/", "2", "0", "2", "4">>

FcRows ==
    {Sale(UK, <<"1", "0">>, d) : d \in {D1, D2}}
    \cup {Sale(FR, <<"2", "5", ".", "5">>, d) : d \in {D1, D2}}
    \cup {Sale(FR, <<"-", "4">>, <<>>),
          Sale(UK, <<"a", "b", "c">>, <<"1", "/", "2", "/", "2", "0", "2", "3">>),
          Sale(UK, <<"1", "0">>, BadDate)}

\* sales 10, 20, 30, 40, 50 on five ascending dates
ExampleFcTable ==
    <<Sale(UK, <<"1", "0">>, Day(1)), Sale(FR, <<"2", "0">>, Day(2)),
      Sale(UK, <<"3", "0">>, Day(3)), Sale(FR, <<"4", "0">>, Day(4)),
      Sale(UK, <<"5", "0">>, Day(5))>>

InitFc ==
    \E t \in Tables(FcRows, MaxFcRows) \cup {ExampleFcTable} :
        StartState("Forecast", NumCols, t)

SpecFc == InitFc /\ [][NextFc]_vars

-----------------------------------------------------------------------------
(* Vocabulary of the properties *)

\* the row the reader is about to yield is well formed
RowReadable == idx < Len(input) /\ IsSome(ReadRecord(input[idx + 1]))

\* its record of trimmed fields
NextRec == Unwrap(ReadRecord(input[idx + 1]))

\* the text of column col (counted from 0) of a record; empty when the row is short
Field(rec, col) == IF col + 1 \in DOMAIN rec THEN rec[col + 1] ELSE <<>>

\* a cell is absent: missing, empty or null
Absent(cell) == cell = <<>> \/ cell = null

\* a numeric cell is parsable
Parsable(cell) == IsSome(parse_money(cell))

\* a date cell is parsable as day/month/year
DateOK(cell) == IsSome(ParseDate(cell))

\* Dashboard: one of the six required fields is absent, or a numeric one unparsable
MissingRequired(rec) ==
    \/ \E col \in {1, 2, 4, 5, 6, 12} : Absent(Field(rec, col))
    \/ \E col \in {4, 5, 6} : ~Parsable(Field(rec, col))

\* n is the greatest integer not above the finite value v
IsFloor(n, v) == n * Unit <= v.t /\ v.t < (n + 1) * Unit

-----------------------------------------------------------------------------
(* C1 *)

\* C1: Dashboard: reading a row in which one of the six required fields
\* (country, product, units_sold, manufacturing_price, sale_price, date) is
\* absent, or one of the three numeric fields is unparsable, adds no record
\* (and only retained records reach the output), whatever the other rows are.
C1_MissingFieldNoRecord ==
    [][(pipeline = "Dashboard" /\ pc = "read" /\ RowReadable /\ MissingRequired(NextRec))
        => records' = records]_vars

-----------------------------------------------------------------------------
(* C2 *)

\* the value at 0-based rank k of the ascending order of the prices ps
AtRank(ps, k) ==
    CHOOSE v \in {ps[i] : i \in 1..Len(ps)} :
        /\ Cardinality({i \in 1..Len(ps) : ps[i].t < v.t}) <= k
        /\ k < Cardinality({i \in 1..Len(ps) : ps[i].t <= v.t})

\* the rows of rs within [Q1 - 1.5 IQR, Q3 + 1.5 IQR]; a NaN compares false
IQRKept(rs) ==
    LET ps == [i \in 1..Len(rs) |-> rs[i].sale_price]
        n  == Len(rs)
        q1 == AtRank(ps, (n - (n % 4)) \div 4)
        q3 == AtRank(ps, (3 * n - ((3 * n) % 4)) \div 4)
    IN  SelectSeq(rs, LAMBDA r :
            /\ \A i \in 1..n : ~ps[i].nan
            /\ 2 * r.sale_price.t >= 2 * q1.t - 3 * (q3.t - q1.t)
            /\ 2 * r.sale_price.t <= 2 * q3.t + 3 * (q3.t - q1.t))

\* C2: Dashboard OutlierFilter: for every non-empty sequence of retained
\* records the filter yields exactly the records with
\* Q1 - 1.5 IQR <= sale_price <= Q3 + 1.5 IQR, each once and in their original
\* order, Q1 and Q3 being the prices at ranks floor(0.25 n) and floor(0.75 n);
\* for the prices 10, 12, 14, 15, 18, 100 the record at 100 is dropped and the
\* other five are kept.
C2_OutlierFilter ==
    (pipeline = "Dashboard" /\ idx = Len(input) /\ Len(records) > 0 /\ pc # "read")
        => /\ pc \in {"write", "done"}
           /\ filtered = IQRKept(records)
           /\ (input = ExampleDashTable =>
                  /\ Len(filtered) = 5
                  /\ \A j \in 1..5 : filtered[j] = records[j])

\* C2 restricted to tables in which no retained sale price is NaN
C2_OutlierFilterNoNaN ==
    (\A j \in 1..Len(records) : ~records[j].sale_price.nan) => C2_OutlierFilter

-----------------------------------------------------------------------------
(* C3 *)

\* C3: Dashboard with zero retained records: the outlier step is a no-op and
\* the run completes with an output table without data rows; it never crashes.
C3_EmptyNoCrash ==
    (pipeline = "Dashboard" /\ idx = Len(input) /\ Len(records) = 0)
        => /\ pc # "panicked"
           /\ out = <<>>

-----------------------------------------------------------------------------
(* C4 *)

\* the moving-average column of the written records
MAColumn == [j \in 1..Len(out) |-> out[j][13]]

\* C4: Forecast Smoother, window 3: one moving-average value per record of
\* the date-sorted sequence; at 0-based position i it is Absent when i < 2 and
\* otherwise the arithmetic mean of the sales at positions i-2, i-1, i of that
\* sequence, whatever the records' segment, country or product.  For the
\* sales 10, 20, 30, 40, 50 the sequence is Absent, Absent, 20, 30, 40.
C4_MovingAverage ==
    (pipeline = "Forecast" /\ pc \in {"write", "done"})
        => /\ Len(sales_ma) = Len(rows)
           /\ \A i \in 0..(Len(rows) - 1) :
                 IF i < 2 THEN sales_ma[i + 1] = None
                 ELSE /\ IsSome(sales_ma[i + 1])
                      /\ 3 * sales_ma[i + 1][1].num
                           = sales_ma[i + 1][1].den
                               * (rows[i - 1].sales + rows[i].sales + rows[i + 1].sales)
           /\ (input = ExampleFcTable =>
                 /\ Len(sales_ma) = 5
                 /\ sales_ma[1] = None /\ sales_ma[2] = None
                 /\ \A i \in 3..5 :
                       sales_ma[i][1].num = (10 * (i - 1)) * sales_ma[i][1].den
                 /\ (pc = "done" =>
                       MAColumn = <<<<>>, <<>>, <<"2", "0">>, <<"3", "0">>, <<"4", "0">>>>))

\* a finished run whose window spans records of different countries
C4_Witness ==
    /\ pipeline = "Forecast" /\ pc = "done" /\ Len(rows) >= 4
    /\ IsSome(sales_ma[4])
    /\ rows[2].country # rows[3].country
    /\ rows[2].sales # rows[4].sales

-----------------------------------------------------------------------------
(* C9 *)

\* the records of the well-formed, non-blank rows with a parsable date, in input order
AcceptedRecs ==
    LET recs == [i \in 1..idx |-> ReadRecord(input[i])]
        ok   == SelectSeq(recs, LAMBDA r :
                    IsSome(r) /\ ~AllBlank(Unwrap(r)) /\ DateOK(Field(Unwrap(r), 12)))
    IN  [i \in 1..Len(ok) |-> Unwrap(ok[i])]

\* the position, after a stable ascending sort by date, of the i-th accepted record
Rank(acc, i) ==
    LET key(k) == DateKey(Unwrap(ParseDate(Field(acc[k], 12))))
    IN  1 + Cardinality({k \in 1..Len(acc) : key(k) < key(i)})
          + Cardinality({k \in 1..(i - 1) : key(k) = key(i)})

\* C9: Forecast: the output records are a permutation of all accepted records
\* (non-blank rows with a parsable date; none dropped, none duplicated) in
\* ascending date order, records of equal date keeping their input order.
C9_StablePermutation ==
    (pipeline = "Forecast" /\ pc = "done")
        => LET acc == AcceptedRecs
           IN  /\ Len(out) = Len(acc)
               /\ Len(rows) = Len(acc)
               /\ \A i \in 1..Len(acc) :
                     /\ <<rows[Rank(acc, i)]>> = ForecastRowOf(acc[i]).row
                     /\ out[Rank(acc, i)] = ForecastText(rows[Rank(acc, i)], sales_ma[Rank(acc, i)])
               /\ \A j \in 1..(Len(out) - 1) :
                     DateKey(rows[j].date) <= DateKey(rows[j + 1].date)

\* a finished run that moved a record forward and kept two records of one date apart
C9_Witness ==
    /\ pipeline = "Forecast" /\ pc = "done" /\ Len(out) >= 3
    /\ \E i \in 1..Len(AcceptedRecs) : Rank(AcceptedRecs, i) < i
    /\ \E j \in 1..(Len(rows) - 1) :
          rows[j].date = rows[j + 1].date /\ rows[j].sales # rows[j + 1].sales

-----------------------------------------------------------------------------
(* C5 *)

\* the row being read is skipped: the loop goes on and nothing is recorded
Skipped ==
    /\ pc' = "read" /\ idx' = idx + 1
    /\ records' = records /\ rows' = rows /\ out' = out

\* Dashboard: the three numeric cells of the record parse
NumericsOK(rec) == \A col \in {4, 5, 6} : Parsable(Field(rec, col))

-----------------------------------------------------------------------------
(* C6 *)

\* C6: in each of the three pipelines a run that aborts on a fatal input
\* error (a malformed date, a malformed table row) leaves no partial output:
\* at the abort no data row of the run has been written to the destination.
C6_NoPartialOutput == pc = "aborted" => out = <<>>

-----------------------------------------------------------------------------
(* C7 *)

\* the written integer text it stands for the floor of the cell's value, or 0
IntFieldOK(n, cell) ==
    LET p == parse_money(cell)
    IN  IF ~IsSome(p) THEN n = 0
        ELSE ~Unwrap(p).nan => IsFloor(n, Unwrap(p))

\* the integer n is the cell's parsed value itself, or 0
IntFieldExact(n, cell) ==
    LET p == parse_money(cell)
    IN  IF ~IsSome(p) THEN n = 0
        ELSE ~Unwrap(p).nan => n * Unit = Unwrap(p).t

\* the f64 v is the cell's parsed value, or 0.0
MoneyFieldOK(v, cell) ==
    LET p == parse_money(cell)
    IN  IF ~IsSome(p) THEN v = Fin(0) ELSE v = Unwrap(p)

\* the integer a decimal text without fraction stands for
TextInt(text) == Unwrap(ParseF64(text)).t \div Unit

\* a written Timeseries record agrees with the record rec it was built from
TsMatches(o, rec, IntOK(_, _)) ==
    /\ Len(o) = 13
    /\ \A col \in 0..3 : o[col + 1] = Field(rec, col)
    /\ IsSome(ParseF64(o[5]))
    /\ Unwrap(ParseF64(o[5])).t % Unit = 0
    /\ IntOK(TextInt(o[5]), Field(rec, 4))
    /\ \A col \in 5..11 :
          /\ IsSome(ParseF64(o[col + 1]))
          /\ MoneyFieldOK(Unwrap(ParseF64(o[col + 1])), Field(rec, col))
    /\ o[13] = FormatISO(Unwrap(ParseDate(Field(rec, 12))))

\* a Forecast row agrees with the record rec it was built from
FcMatches(r, rec, IntOK(_, _)) ==
    /\ r.segment = Field(rec, 0) /\ r.country = Field(rec, 1)
    /\ r.product = Field(rec, 2) /\ r.discount_band = Field(rec, 3)
    /\ IntOK(r.units_sold, Field(rec, 4))
    /\ IntOK(r.procurement, Field(rec, 5))
    /\ IntOK(r.manufactured_price, Field(rec, 6))
    /\ IntOK(r.sale_price, Field(rec, 7))
    /\ IntOK(r.budget, Field(rec, 8))
    /\ IntOK(r.discounts, Field(rec, 9))
    /\ IntOK(r.sales, Field(rec, 10))
    /\ IntOK(r.cogs, Field(rec, 11))
    /\ r.date = Unwrap(ParseDate(Field(rec, 12)))

\* one record per accepted row, each agreeing with its row under IntOK
LenientRows(IntOK(_, _)) ==
    LET acc == AcceptedRecs
    IN  /\ (pipeline = "Timeseries" /\ pc \in {"read", "done"})
              => /\ Len(out) = Len(acc)
                 /\ \A j \in 1..Len(acc) : TsMatches(out[j], acc[j], IntOK)
        /\ (pipeline = "Forecast" /\ pc = "read")
              => /\ Len(rows) = Len(acc)
                 /\ \A j \in 1..Len(acc) : FcMatches(rows[j], acc[j], IntOK)
        /\ (pipeline = "Forecast" /\ pc \in {"write", "done"})
              => /\ Len(rows) = Len(acc)
                 /\ \A i \in 1..Len(acc) : \E j \in 1..Len(rows) : FcMatches(rows[j], acc[i], IntOK)
                 /\ \A j \in 1..Len(rows) : \E i \in 1..Len(acc) : FcMatches(rows[j], acc[i], IntOK)
                 /\ (pc = "done" => Len(out) = Len(acc))

\* C7 as stated: Timeseries and Forecast: every non-blank row with a parsable
\* date yields exactly one output record, whatever its numeric cells; a
\* numeric field whose cell is absent, null, unparsable or missing is 0 (0.0),
\* and every parsable numeric cell yields its parsed value; Timeseries records
\* keep the input order.
C7_LenientRowsParsedValue == LenientRows(IntFieldExact)

\* C7 amended: as stated, in a run that is not aborted, except that an
\* integer-typed field (units_sold in Timeseries, all eight numeric fields in
\* Forecast) built from a cell that parses to a finite number holds the floor
\* of that number, not the number itself.
C7_LenientRows == LenientRows(IntFieldOK)

\* a finished Timeseries run that wrote a defaulted and a floored units field
C7_Witness ==
    /\ pipeline = "Timeseries" /\ pc = "done" /\ Len(out) = 2
    /\ ~Parsable(Field(AcceptedRecs[1], 4)) /\ out[1][5] = <<"0">>
    /\ ~Parsable(Field(AcceptedRecs[1], 6)) /\ out[1][7] = <<"0">>
    /\ Field(AcceptedRecs[2], 4) = <<"4", ".", "9">> /\ out[2][5] = <<"4">>

-----------------------------------------------------------------------------
(* C8 *)

\* the positions (from 1) of the numeric texts and of the date text of a written record
NumericPositions ==
    IF pipeline = "Dashboard" THEN 3..5
    ELSE IF pipeline = "Timeseries" THEN 5..12 ELSE 5..13

DatePosition ==
    IF pipeline = "Dashboard" THEN 6 ELSE IF pipeline = "Timeseries" THEN 13 ELSE 14

\* C8: round-trip fixed point: every emitted text, fed back through the same
\* parsers, gives the emitted value again without error: parse_money of an
\* emitted number returns that number (an absent moving average stays
\* absent), and the pipeline's date parsing of an emitted ISO date returns
\* that same date.
C8_RoundTrip ==
    \A j \in 1..Len(out) :
        /\ \A k \in NumericPositions :
              \/ out[j][k] = <<>> /\ parse_money(out[j][k]) = None
              \/ /\ IsSome(parse_money(out[j][k]))
                 /\ parse_money(F64ToString(Unwrap(parse_money(out[j][k]))))
                       = parse_money(out[j][k])
        /\ (pipeline = "Dashboard" /\ pc = "done") =>
              /\ parse_money(out[j][3]) = Some(Fin(filtered[j].units_sold * Unit))
              /\ parse_money(out[j][4]) = Some(filtered[j].manufacturing_price)
              /\ parse_money(out[j][5]) = Some(filtered[j].sale_price)
        /\ IsSome(ParseDate(out[j][DatePosition]))
        /\ FormatISO(Unwrap(ParseDate(out[j][DatePosition]))) = out[j][DatePosition]

\* C8 amended: every emitted numeric text is a fixed point of parse_money
\* (it parses, without error, to the number that was emitted; an absent moving
\* average stays absent), but an emitted ISO date (YYYY-MM-DD) is not accepted
\* by the pipelines' date parsing, which reads day/month/year separated by
\* "/": fed back, it is a parse error, not the same date.
C8_NumericFixedPoint ==
    \A j \in 1..Len(out) :
        /\ \A k \in NumericPositions :
              \/ out[j][k] = <<>> /\ parse_money(out[j][k]) = None
              \/ /\ IsSome(parse_money(out[j][k]))
                 /\ parse_money(F64ToString(Unwrap(parse_money(out[j][k]))))
                       = parse_money(out[j][k])
        /\ (pipeline = "Dashboard" /\ pc = "done") =>
              /\ parse_money(out[j][3]) = Some(Fin(filtered[j].units_sold * Unit))
              /\ parse_money(out[j][4]) = Some(filtered[j].manufacturing_price)
              /\ parse_money(out[j][5]) = Some(filtered[j].sale_price)
        /\ out[j][DatePosition] # <<>>
        /\ ~IsSome(ParseDate(out[j][DatePosition]))

\* a finished Dashboard run that wrote a fractional price and an ISO date
C8_Witness ==
    /\ pipeline = "Dashboard" /\ pc = "done" /\ Len(out) >= 1
    /\ out[1][4] = <<"2", ".", "5">>
    /\ out[1][6] = <<"2", "0", "2", "4", "-", "0", "1", "-", "0", "5">>

-----------------------------------------------------------------------------
(* C10 *)

\* the worked cases of the truncation law: 4.9, 5.0, 4.5, -0.1
FloorCases ==
    {<<<<"4", ".", "9">>, 4>>, <<<<"5", ".", "0">>, 5>>,
     <<<<"4", ".", "5">>, 4>>, <<<<"-", "0", ".", "1">>, -1>>}

\* the integer n built from the cell is the floor of the number the cell parses to
FloorOfCell(n, cell) ==
    /\ (Parsable(cell) /\ ~Unwrap(parse_money(cell)).nan)
          => IsFloor(n, Unwrap(parse_money(cell)))
    /\ \A c \in FloorCases : cell = c[1] => n = c[2]

\* C10: truncation law: in all three pipelines an integer-typed field built
\* from a cell that parses to the number v equals floor(v), the greatest
\* integer not above v (never to nearest, never toward zero): 4.9 gives 4,
\* 5.0 gives 5, 4.5 gives 4 and -0.1 gives -1.
C10_Floor ==
    [][(pc = "read" /\ RowReadable /\ idx' = idx + 1)
        => /\ Len(records') = Len(records) + 1
                 => FloorOfCell(records'[Len(records')].units_sold, Field(NextRec, 4))
           /\ Len(out') = Len(out) + 1
                 => /\ IsSome(ParseF64(out'[Len(out')][5]))
                    /\ Unwrap(ParseF64(out'[Len(out')][5])).t % Unit = 0
                    /\ FloorOfCell(TextInt(out'[Len(out')][5]), Field(NextRec, 4))
           /\ Len(rows') = Len(rows) + 1
                 => LET r == rows'[Len(rows')]
                    IN  /\ FloorOfCell(r.units_sold, Field(NextRec, 4))
                        /\ FloorOfCell(r.procurement, Field(NextRec, 5))
                        /\ FloorOfCell(r.manufactured_price, Field(NextRec, 6))
                        /\ FloorOfCell(r.sale_price, Field(NextRec, 7))
                        /\ FloorOfCell(r.budget, Field(NextRec, 8))
                        /\ FloorOfCell(r.discounts, Field(NextRec, 9))
                        /\ FloorOfCell(r.sales, Field(NextRec, 10))
                        /\ FloorOfCell(r.cogs, Field(NextRec, 11))]_vars

\* a Forecast run that built units_sold = -1 from the cell -0.1 and 4 from 4.5
C10_Witness ==
    /\ pipeline = "Forecast" /\ Len(rows) = 2 /\ idx = 2
    /\ Field(Unwrap(ReadRecord(input[1])), 4) = <<"-", "0", ".", "1">>
    /\ rows[1].units_sold = -1
    /\ Field(Unwrap(ReadRecord(input[2])), 4) = <<"4", ".", "5">>
    /\ rows[2].units_sold = 4

====
